---- MODULE Spec2Model ----
(***************************************************************************)
(* Model of bot.py (SLC Trench Scanner helper): one shared store `data`    *)
(* (users, wallet_map, seen_tx) persisted to a JSON file, and three        *)
(* threads working on it without any lock: the ledger scanner              *)
(* (solscan_loop, main thread), the command handler                        *)
(* (poll_telegram_updates) and the expiry sweeper (daily_expiry_check).    *)
(* A step of the model is a stretch of one thread's code between two       *)
(* blocking calls (network, file write); steps of different threads        *)
(* interleave freely.                                                      *)
(*                                                                         *)
(* Text is a sequence of one-character strings, so that lower(), lstrip(), *)
(* startswith(), isalnum() and str() are computed, not assumed.  Time is   *)
(* counted in whole days since the process started.                        *)
(***************************************************************************)
EXTENDS Integers, Sequences, FiniteSets, TLC

\* ------------------------------------------------------------ bounds
\* The command handler processes at most MaxCmds /start commands.
MaxCmds == 2
\* The scanner processes at most MaxTxs new transactions.
MaxTxs == 2
\* The same two bounds where the steps that only answer are taken too.
MaxCmdsQ == 1
MaxTxsQ == 2
\* The same two bounds where save_data is followed write by write.
MaxCmdsIO == 1
MaxTxsIO == 1
\* The same two bounds where save_data and the processing of a detail can raise.
MaxCmdsF == 1
MaxTxsF == 2

\* ------------------------------------------------------------ text
Digits == <<"0", "1", "2", "3", "4", "5", "6", "7", "8", "9">>

UpperCase == <<"A", "B", "C", "D", "E", "F", "G", "H", "I", "J", "K", "L", "M",
               "N", "O", "P", "Q", "R", "S", "T", "U", "V", "W", "X", "Y", "Z">>

LowerCase == <<"a", "b", "c", "d", "e", "f", "g", "h", "i", "j", "k", "l", "m",
               "n", "o", "p", "q", "r", "s", "t", "u", "v", "w", "x", "y", "z">>

Range(s) == {s[i] : i \in DOMAIN s}

\* str.lower() on one character
LowerChar(c) ==
    IF \E i \in DOMAIN UpperCase : UpperCase[i] = c
    THEN LowerCase[CHOOSE i \in DOMAIN UpperCase : UpperCase[i] = c]
    ELSE c

\* str.lower()
Lower(s) == [i \in DOMAIN s |-> LowerChar(s[i])]

\* str.lstrip("@")
RECURSIVE LStripAt(_)
LStripAt(s) == IF s # <<>> /\ Head(s) = "@" THEN LStripAt(Tail(s)) ELSE s

\* str.startswith("@")
StartsWithAt(s) == s # <<>> /\ Head(s) = "@"

\* str.isalnum(): non-empty and every character a letter or a digit
IsAlnum(s) ==
    /\ s # <<>>
    /\ \A i \in DOMAIN s :
          s[i] \in Range(Digits) \cup Range(UpperCase) \cup Range(LowerCase)

\* str(n) for a natural number
RECURSIVE Str(_)
Str(n) == IF n < 10 THEN <<Digits[n + 1]>>
          ELSE Str(n \div 10) \o <<Digits[(n % 10) + 1]>>

\* datetime.isoformat() and datetime.fromisoformat(): the stored text of a
\* timestamp and the timestamp read back from it.
IsoFormat(t) == <<"T">> \o Str(t)

RECURSIVE ParseNat(_)
ParseNat(s) ==
    IF s = <<>> THEN 0
    ELSE 10 * ParseNat(SubSeq(s, 1, Len(s) - 1))
         + ((CHOOSE i \in DOMAIN Digits : Digits[i] = s[Len(s)]) - 1)

FromIsoFormat(x) == ParseNat(Tail(x))

\* ------------------------------------------------------------ configuration
\* The receiving address, and the same address as str.lower() gives it.
WALLET == "GFxQeqQBhgu4yLYLf7BFUBkRkhbfTnkAfwsrN9TEaTZv"
WALLET_LOWER == "gfxqeqqbhgu4ylylf7bfubkrkhbftnkafwsrn9teatzv"

\* str.lower() on an address (addresses other than WALLET are written in
\* lower case in this model)
AddrLower(a) == IF a = WALLET THEN WALLET_LOWER ELSE a

MIN_LAMPORTS == 150000000

\* timedelta(days=30)
TTL_DAYS == 30

WHITELIST ==
    << <<"l", "e", "o", "p", "e", "x", "1">>,
       <<"D", "e", "g", "e", "n", "e", "t", "i", "v", "e">>,
       <<"S", "L", "C", "S", "c", "a", "n", "n", "e", "r", "B", "o", "t">>,
       <<"S", "t", "e", "e", "z", "4", "3", "1">>,
       <<"c", "r", "i", "p", "p", "l", "i", "n", "g", "d", "e", "g", "e", "n">>,
       <<"A", "R", "C">>,
       <<"M", "o", "n", "e", "y", "M", "a", "l", "i", "c", "i", "a">> >>

WL_SET == {LStripAt(Lower(WHITELIST[i])) : i \in DOMAIN WHITELIST}

norm_username(u) == IF u = <<>> THEN <<>> ELSE LStripAt(Lower(u))

\* a plausible slip: the name is compared as it is stored, "@" and case included
is_whitelisted_raw(username) == username \in WL_SET

is_whitelisted(username) == norm_username(username) \in WL_SET

\* ------------------------------------------------------------ inputs
\* Wallet addresses users pay from.
UserWallets == {"w1", "w2"}

\* An address that is neither the receiving address nor a user's.
OTHER_ADDR == "other"

\* "No value" where the code has None.
NoAddr == "None"

\* Message texts: the first word as characters, and the words after it.
Chars_start == <<"/", "s", "t", "a", "r", "t">>
Chars_myjoin == <<"/", "m", "y", "j", "o", "i", "n">>

Texts ==
    { [word |-> <<"/", "s", "t", "a", "r", "t">>, args |-> <<w>>] : w \in UserWallets }
    \cup
    { [word |-> <<"/", "S", "t", "a", "r", "t">>, args |-> <<>>],
      [word |-> <<"/", "m", "y", "j", "o", "i", "n">>, args |-> <<>>],
      [word |-> <<"/", "M", "y", "J", "o", "i", "n", "s">>, args |-> <<>>],
      [word |-> <<"h", "i">>, args |-> <<>>] }

\* str.startswith(prefix)
StartsWith(s, prefix) ==
    Len(s) >= Len(prefix) /\ SubSeq(s, 1, Len(prefix)) = prefix

\* Transaction identifiers the ledger explorer lists for the receiving address.
Sigs == {"t1", "t2", "t3"}

\* What the explorer can return as the detail of each transaction: the
\* transfer items (destination, amount in lamports), whether the text "SLC30"
\* occurs in the serialized detail, and the three places a signer is looked
\* for.  t1 pays exactly the minimum from w1; t2 pays it from w2 in two items,
\* one of them addressed in lower case, next to an item for another address;
\* t3 is from w1 and either one lamport short or without the memo.
TxDetails(sig) ==
    CASE sig = "t1" ->
           { [transfers |-> << [to |-> WALLET, amount |-> 150000000] >>,
              memo |-> TRUE, feePayer |-> "w1", signer |-> NoAddr,
              accountKeys |-> <<NoAddr>>] }
      [] sig = "t2" ->
           { [transfers |-> << [to |-> WALLET, amount |-> 75000000],
                               [to |-> OTHER_ADDR, amount |-> 150000000],
                               [to |-> WALLET_LOWER, amount |-> 75000000] >>,
              memo |-> TRUE, feePayer |-> NoAddr, signer |-> NoAddr,
              accountKeys |-> <<"w2", "w1">>] }
      [] sig = "t3" ->
           { [transfers |-> << [to |-> WALLET, amount |-> 149999999] >>,
              memo |-> TRUE, feePayer |-> NoAddr, signer |-> "w1",
              accountKeys |-> <<NoAddr>>],
             [transfers |-> << [to |-> WALLET, amount |-> 150000000] >>,
              memo |-> FALSE, feePayer |-> "w1", signer |-> "w2",
              accountKeys |-> <<NoAddr>>] }

\* get_tx_detail returns {} when the request fails: no transfers, no memo,
\* no signer (accountKeys defaults to [None]).
EmptyDetail ==
    [transfers |-> <<>>, memo |-> FALSE, feePayer |-> NoAddr,
     signer |-> NoAddr, accountKeys |-> <<NoAddr>>]

\* The days at which anything happens: the day the process starts, the 30th
\* day after it and the 31st.
Instants == {0, TTL_DAYS, TTL_DAYS + 1}

\* The messages that arrive: who sends what.  The sender with a handle that
\* is not whitelisted sends every text; the whitelisted sender and the sender
\* without handle map one address and send the texts that are not /start.
Commands ==
    LET bo == [id |-> 1, username |-> <<"b", "o">>]
        arc == [id |-> 2, username |-> <<"A", "R", "C">>]
        anon == [id |-> 7, username |-> <<>>]
        start(w) == [word |-> <<"/", "s", "t", "a", "r", "t">>, args |-> <<w>>]
    IN  { <<bo, text>> : text \in Texts }
        \cup { <<arc, start("w1")>>, <<anon, start("w1")>> }
        \cup { <<frm, text>> : frm \in {arc, anon},
                              text \in {t \in Texts : t.args = <<>> /\ Len(t.word) # 6} }

\* ------------------------------------------------------------ state
Units == {"scanner", "handler", "sweeper"}

VARIABLES
    users,       \* data["users"]: username -> record (fields present or not)
    wallet_map,  \* data["wallet_map"]: wallet address -> username
    seen_tx,     \* data["seen_tx"]: list of processed identifiers
    file,        \* content of DATA_FILE
    now,         \* datetime.utcnow(), in days
    pc,          \* where each thread is
    cmd,         \* locals of the command being handled
    sweep,       \* locals of the sweep pass
    snap,        \* per thread: the store as read when its save_data began
    ncmds,       \* number of /start commands handled
    grants,      \* history: per identifier, calls of grant_access_to
    paid_at,     \* history: per username, day of its latest grant
    sent,        \* requests to the messaging platform made by the last step
    last         \* the last step taken

vars == <<users, wallet_map, seen_tx, file, now, pc, cmd, sweep, snap,
          ncmds, grants, paid_at, sent, last>>

\* ------------------------------------------------------------ dictionaries
EmptyDict == [x \in {} |-> x]

\* d[k] = v
Put(d, k, v) == [x \in (DOMAIN d) \cup {k} |-> IF x = k THEN v ELSE d[x]]

\* d.pop(k, None)
Pop(d, k) == [x \in (DOMAIN d) \ {k} |-> d[x]]

\* d.setdefault(k, v) as it leaves d
SetDefault(d, k, v) == IF k \in DOMAIN d THEN d ELSE Put(d, k, v)

Has(d, k) == k \in DOMAIN d

\* the whole store, as json.dump writes it
Store(u, wm, st) == [users |-> u, wallet_map |-> wm, seen_tx |-> st]

EmptyStore == Store(EmptyDict, EmptyDict, <<>>)

\* a file two overlapping writers have left in no valid form
Corrupt == [users |-> EmptyDict, wallet_map |-> EmptyDict, seen_tx |-> <<"corrupt">>]

\* a file opened with mode "w" and not written yet
Truncated == [users |-> EmptyDict, wallet_map |-> EmptyDict, seen_tx |-> <<"truncated">>]

NoCmd == [uname |-> <<>>, uid |-> 0, wallet |-> NoAddr]
NoSweep == [todo |-> {}, cur |-> <<>>, changed |-> FALSE, found |-> {}, deleted |-> {}]

\* The last step: what was done, for which username and which transaction,
\* and the detail that was fetched for the transaction.
StepTx(op, uname, sig, detail) ==
    [op |-> op, uname |-> uname, sig |-> sig, detail |-> detail]

Step(op, uname, sig) == StepTx(op, uname, sig, EmptyDetail)

Init ==
    /\ users = EmptyDict
    /\ wallet_map = EmptyDict
    /\ seen_tx = <<>>
    /\ file = EmptyStore
    /\ now = 0
    /\ pc = [u \in Units |-> IF u = "sweeper" THEN "sleep" ELSE "idle"]
    /\ cmd = NoCmd
    /\ sweep = NoSweep
    /\ snap = [u \in Units |-> EmptyStore]
    /\ ncmds = 0
    /\ grants = [s \in Sigs |-> 0]
    /\ paid_at = EmptyDict
    /\ sent = {}
    /\ last = Step("none", <<>>, "")

\* ------------------------------------------------------------ messages
\* A request to the messaging platform: its kind, the chat or user it is
\* addressed to (as text), the wallet it mentions and its other text fields.
Msg(kind, to, wallet, fields) ==
    [kind |-> kind, to |-> to, wallet |-> wallet, fields |-> fields]

Text_NA == <<"N", "/", "A">>
Text_None == <<"N", "o", "n", "e">>

\* ------------------------------------------------------------ save_data
\* json.dump(d, open(DATA_FILE, "w")) taken as one step: the file holds the
\* store.  No thread reads the file, so for everything but the file itself
\* this is all a save does.
SaveNow == file' = Store(users', wallet_map', seen_tx')

\* The same call followed write by write: a thread is at "save" before
\* open(), at "write" while json.dump runs.
InSave(u) == pc[u] \in {"write", "write1", "write2"}

\* open(DATA_FILE, "w"): the file is emptied; json.dump starts on the store
OpenFile(u) ==
    /\ file' = Truncated
    /\ snap' = [snap EXCEPT ![u] = Store(users, wallet_map, seen_tx)]

\* What the file holds when json.dump of thread u is through: the store as it
\* was when the dump began or as it is now (the dump walks the live
\* dictionaries and no lock keeps them still), or no valid document when
\* another thread is writing the same file.
WriteOutcomes(u) ==
    {snap[u], Store(users, wallet_map, seen_tx)}
    \cup (IF \E v \in Units \ {u} : InSave(v) THEN {Corrupt} ELSE {})

CloseFile(u) ==
    /\ \E content \in WriteOutcomes(u) : file' = content
    /\ snap' = [snap EXCEPT ![u] = EmptyStore]

\* ------------------------------------------------------------ command handler
\* uname = ("@" + frm.username) if frm.username else str(frm.id)
UnameOf(frm) ==
    IF frm.username # <<>> THEN <<"@">> \o frm.username ELSE Str(frm.id)

IsStart(text) == StartsWith(Lower(text.word), Chars_start)

IsMyJoin(text) == ~IsStart(text) /\ StartsWith(Lower(text.word), Chars_myjoin)

\* a plausible slip: /start replaces the record instead of updating it
StartRecord_fresh(u0, t, uid, args) ==
    LET u1 == [x \in {"join", "user_id"} |-> IF x = "join" THEN IsoFormat(t) ELSE uid]
    IN  IF Len(args) >= 1 THEN Put(u1, "wallet", args[1]) ELSE u1

\* a plausible slip: /start leaves join to the first payment
StartRecord_nojoin(u0, t, uid, args) ==
    LET u2 == Put(u0, "user_id", uid)
    IN  IF Len(args) >= 1 THEN Put(u2, "wallet", args[1]) ELSE u2

\* The record /start leaves for the sender: join set if absent, user_id set,
\* and wallet set when an address was given.
StartRecord(u0, t, uid, args) ==
    LET u1 == SetDefault(u0, "join", IsoFormat(t))
        u2 == Put(u1, "user_id", uid)
    IN  IF Len(args) >= 1 THEN Put(u2, "wallet", args[1]) ELSE u2

\* a plausible slip: remapping drops the sender's earlier addresses
StartWalletMap_cleanup(wm, uname, args) ==
    IF Len(args) >= 1
    THEN Put([w \in {x \in DOMAIN wm : wm[x] # uname} |-> wm[w]], args[1], uname)
    ELSE wm

\* wallet_map after /start
StartWalletMap(wm, uname, args) ==
    IF Len(args) >= 1 THEN Put(wm, args[1], uname) ELSE wm

\* The reply to /start
StartReply(uname, uid, wallet) ==
    { Msg(IF wallet # NoAddr THEN "mapped" ELSE "usage", Str(uid), wallet, <<uname>>) }

\* /start [wallet], lines 161-169: wallet_map and the sender's record
StartUpdate(frm, text) ==
    /\ pc["handler"] = "idle"
    /\ IsStart(text)
    /\ LET uname == UnameOf(frm)
           u0 == IF Has(users, uname) THEN users[uname] ELSE EmptyDict
       IN  /\ wallet_map' = StartWalletMap(wallet_map, uname, text.args)
           /\ users' = Put(users, uname, StartRecord(u0, now, frm.id, text.args))
           /\ last' = Step("start", uname, "")
    /\ ncmds' = ncmds + 1
    /\ UNCHANGED <<seen_tx, now, sweep, grants, paid_at>>

StartArg(text) == IF Len(text.args) >= 1 THEN text.args[1] ELSE NoAddr

\* /start [wallet]: update, save_data, reply
CmdStart(frm, text) ==
    /\ ncmds < MaxCmds
    /\ StartUpdate(frm, text)
    /\ SaveNow
    /\ sent' = StartReply(UnameOf(frm), frm.id, StartArg(text))
    /\ UNCHANGED <<pc, cmd, snap>>

\* a plausible slip: the expiry is reported from the join time
ExpiryText_join(info) ==
    IF Has(info, "join")
    THEN IsoFormat(FromIsoFormat(info["join"]) + TTL_DAYS)
    ELSE Text_NA

\* The "Expires:" text of /myjoin
ExpiryText(info) ==
    IF Has(info, "last_paid")
    THEN IsoFormat(FromIsoFormat(info["last_paid"]) + TTL_DAYS)
    ELSE Text_NA

\* /myjoin: a reply, no change to the store
CmdMyJoin(frm, text) ==
    /\ pc["handler"] = "idle"
    /\ IsMyJoin(text)
    /\ LET uname == UnameOf(frm)
       IN  /\ sent' =
                 IF ~Has(users, uname) \/ users[uname] = EmptyDict
                 THEN { Msg("no_record", Str(frm.id), NoAddr, <<>>) }
                 ELSE LET info == users[uname]
                      IN { Msg("status", Str(frm.id), NoAddr,
                               << IF Has(info, "join") THEN info["join"] ELSE Text_None,
                                  IF Has(info, "last_paid") THEN info["last_paid"]
                                  ELSE Text_None,
                                  ExpiryText(info) >>) }
           /\ last' = Step("myjoin", uname, "")
    /\ UNCHANGED <<users, wallet_map, seen_tx, file, now, pc, cmd, sweep,
                   snap, ncmds, grants, paid_at>>

\* any other text is ignored
CmdOther(frm, text) ==
    /\ pc["handler"] = "idle"
    /\ ~IsStart(text) /\ ~IsMyJoin(text)
    /\ sent' = {}
    /\ last' = Step("ignored", <<>>, "")
    /\ UNCHANGED <<users, wallet_map, seen_tx, file, now, pc, cmd, sweep,
                   snap, ncmds, grants, paid_at>>

\* ------------------------------------------------------------ ledger scanner
\* a plausible slip: only the empty identifier is skipped, seen_tx is not looked at
SeenBefore_never(sig, st) == sig = ""

\* "not sig or sig in seen_tx"
SeenBefore(sig, st) == sig = "" \/ sig \in Range(st)

\* The sum of the amounts of the items addressed to WALLET (compared in lower
\* case); an item with no amount, or amount 0, is passed over.
RECURSIVE Lamports(_)
Lamports(items) ==
    IF items = <<>> THEN 0
    ELSE LET item == Head(items)
         IN (IF /\ item.to # NoAddr
                /\ AddrLower(item.to) = AddrLower(WALLET)
                /\ item.amount # 0
             THEN item.amount ELSE 0) + Lamports(Tail(items))

\* a plausible slip: the minimum itself does not qualify
Qualifies_strict(detail) == Lamports(detail.transfers) > MIN_LAMPORTS /\ detail.memo

\* a plausible slip: the memo is not required
Qualifies_nomemo(detail) == Lamports(detail.transfers) >= MIN_LAMPORTS

\* "lamports >= MIN_LAMPORTS and memo_found"
Qualifies(detail) == Lamports(detail.transfers) >= MIN_LAMPORTS /\ detail.memo

\* feePayer, else signer, else the first account key
SignerOf(detail) ==
    IF detail.feePayer # NoAddr THEN detail.feePayer
    ELSE IF detail.signer # NoAddr THEN detail.signer
    ELSE detail.accountKeys[1]

\* a plausible slip: a payer that is not mapped is granted under its address
PayerName_any(detail, wm) ==
    LET signer == SignerOf(detail)
    IN  IF signer = NoAddr THEN <<>>
        ELSE IF Has(wm, signer) THEN wm[signer] ELSE <<"@", "x">>

\* The username a qualifying payment is granted to: wallet_map.get(signer),
\* <<>> when there is no signer or the signer is not mapped.
PayerName(detail, wm) ==
    LET signer == SignerOf(detail)
    IN  IF signer # NoAddr /\ Has(wm, signer) THEN wm[signer] ELSE <<>>

\* grant_access_to's key for the record (line 126)
GrantName(username) ==
    IF StartsWithAt(username) THEN username
    ELSE IF IsAlnum(username) THEN <<"@">> \o username
    ELSE username

\* a plausible slip: join is written on every grant
GrantRecord_rejoin(u0, t, wallet_addr) ==
    Put(Put(Put(u0, "join", IsoFormat(t)), "last_paid", IsoFormat(t)),
        "wallet", wallet_addr)

\* a plausible slip: a record that is paid already keeps its last_paid
GrantRecord_once(u0, t, wallet_addr) ==
    Put(SetDefault(SetDefault(u0, "join", IsoFormat(t)), "last_paid", IsoFormat(t)),
        "wallet", wallet_addr)

\* The record a grant leaves: join set if absent, last_paid and wallet set.
GrantRecord(u0, t, wallet_addr) ==
    Put(Put(SetDefault(u0, "join", IsoFormat(t)), "last_paid", IsoFormat(t)),
        "wallet", wallet_addr)

\* The group chat, as the platform knows it
SLC_CHAT_ID == <<"c", "h", "a", "t">>

\* The requests a grant makes: the request for an invite link
\* (export_invite_link), the welcome, and the invite when a link came back;
\* the two messages go to the user_id of the record, else to the record's key.
GrantMessages(u, uname, invite) ==
    LET target == IF Has(u, "user_id") THEN Str(u["user_id"]) ELSE uname
    IN  { Msg("export_invite", SLC_CHAT_ID, NoAddr, <<>>),
          Msg("welcome", target, NoAddr, <<>>) }
        \cup (IF invite THEN { Msg("invite", target, NoAddr, <<>>) } ELSE {})

\* handle_new_payment on an identifier that is empty or already in seen_tx
ScanSkip(sig) ==
    /\ pc["scanner"] = "idle"
    /\ SeenBefore(sig, seen_tx)
    /\ sent' = {}
    /\ last' = Step("skip", <<>>, sig)
    /\ UNCHANGED <<users, wallet_map, seen_tx, file, now, pc, cmd, sweep,
                   snap, ncmds, grants, paid_at>>

\* a plausible slip: seen_tx keeps the latest identifier only
MarkSeen_latest(st, sig) == <<sig>>

\* data["seen_tx"].append(sig)
MarkSeen(st, sig) == Append(st, sig)

\* handle_new_payment on a new identifier, lines 95-121 and 126-142.  The
\* detail is fetched (or the request fails), the identifier is appended to
\* seen_tx, and a qualifying payment of a mapped payer is granted:
\* grant_access_to updates the record, asks for an invite link (invite tells
\* whether one came back) and sends the welcome.
HandleUpdate(sig, detail, invite) ==
    /\ pc["scanner"] = "idle"
    /\ ~SeenBefore(sig, seen_tx)
    /\ seen_tx' = MarkSeen(seen_tx, sig)
    /\ LET username == IF Qualifies(detail) THEN PayerName(detail, wallet_map) ELSE <<>>
       IN  IF username # <<>>
           THEN LET uname == GrantName(username)
                    u0 == IF Has(users, uname) THEN users[uname] ELSE EmptyDict
                    u == GrantRecord(u0, now, SignerOf(detail))
                IN  /\ users' = Put(users, uname, u)
                    /\ sent' = GrantMessages(u, uname, invite)
                    /\ grants' = [grants EXCEPT ![sig] = @ + 1]
                    /\ paid_at' = Put(paid_at, username, now)
                    /\ last' = StepTx("grant", username, sig, detail)
           ELSE /\ invite
                /\ sent' = {}
                /\ last' = StepTx("drop", <<>>, sig, detail)
                /\ UNCHANGED <<users, grants, paid_at>>
    /\ UNCHANGED <<wallet_map, now, cmd, sweep, ncmds>>

\* handle_new_payment on a new identifier, with both calls of save_data
\* (line 144 when granted, line 123 always)
ScanHandle(sig, detail, invite) ==
    /\ Len(seen_tx) < MaxTxs
    /\ HandleUpdate(sig, detail, invite)
    /\ SaveNow
    /\ UNCHANGED <<pc, snap>>

\* ------------------------------------------------------------ expiry sweeper
\* a plausible slip: a record expires on its 30th day
Expired_early(last_dt, t) == t - last_dt >= TTL_DAYS

\* "datetime.utcnow() - last_dt > timedelta(days=30)"
Expired(last_dt, t) == t - last_dt > TTL_DAYS

\* a plausible slip: time is counted from join although a payment was made
LastActive_join(info) ==
    IF Has(info, "join") THEN info["join"]
    ELSE IF Has(info, "last_paid") THEN info["last_paid"]
    ELSE <<>>

\* "info.get('last_paid') or info.get('join')", <<>> when neither is set
LastActive(info) ==
    IF Has(info, "last_paid") THEN info["last_paid"]
    ELSE IF Has(info, "join") THEN info["join"]
    ELSE <<>>

\* a plausible slip: the addresses of the removed user stay mapped
DropWallets_none(wm, uname) == wm

\* a plausible slip: the loop over wallet_map stops at the first entry found
DropWallets_first(wm, uname) ==
    IF \E x \in DOMAIN wm : wm[x] = uname
    THEN Pop(wm, CHOOSE x \in DOMAIN wm : wm[x] = uname)
    ELSE wm

\* wallet_map without the entries whose value is uname (lines 218-220)
DropWallets(wm, uname) == [w \in {x \in DOMAIN wm : wm[x] # uname} |-> wm[w]]

\* The sweep wakes up and takes list(data["users"].items()).
\* The records in that list are the live ones; the order of the list is the
\* order in which the users were inserted, and every order is allowed here.
SweepStart ==
    /\ pc["sweeper"] = "sleep"
    /\ sweep' = [NoSweep EXCEPT !.todo = DOMAIN users]
    /\ pc' = [pc EXCEPT !["sweeper"] = "scan"]
    /\ sent' = {}
    /\ last' = Step("sweep", <<>>, "")
    /\ UNCHANGED <<users, wallet_map, seen_tx, file, now, cmd, snap,
                   ncmds, grants, paid_at>>

\* Whether the sweep revokes the record (lines 203-211)
ToRevoke(uname, info, t) ==
    /\ ~is_whitelisted(uname)
    /\ LastActive(info) # <<>>
    /\ Expired(FromIsoFormat(LastActive(info)), t)

\* One record is examined (lines 203-216).  An expired one with a user_id
\* is kicked and told so, and the sweep waits for the platform's answers
\* before it deletes the record; one without user_id is deleted at once.
SweepExamine(uname) ==
    /\ pc["sweeper"] = "scan"
    /\ uname \in sweep.todo
    /\ LET info == users[uname]
       IN  IF ToRevoke(uname, info, now)
           THEN IF Has(info, "user_id")
                THEN /\ sent' = { Msg("kick", Str(info["user_id"]), NoAddr, <<uname>>),
                                  Msg("expired", Str(info["user_id"]), NoAddr, <<uname>>) }
                     /\ sweep' = [sweep EXCEPT !.todo = @ \ {uname}, !.cur = uname,
                                               !.found = @ \cup {uname}]
                     /\ pc' = [pc EXCEPT !["sweeper"] = "pop"]
                     /\ last' = Step("expire", uname, "")
                     /\ UNCHANGED <<users, wallet_map>>
                ELSE /\ sent' = {}
                     /\ users' = Pop(users, uname)
                     /\ wallet_map' = DropWallets(wallet_map, uname)
                     /\ sweep' = [sweep EXCEPT !.todo = @ \ {uname}, !.changed = TRUE,
                                               !.found = @ \cup {uname},
                                               !.deleted = @ \cup {uname}]
                     /\ pc' = pc
                     /\ last' = Step("pop", uname, "")
           ELSE /\ sent' = {}
                /\ sweep' = [sweep EXCEPT !.todo = @ \ {uname}]
                /\ pc' = pc
                /\ last' = Step("keep", uname, "")
                /\ UNCHANGED <<users, wallet_map>>
    /\ UNCHANGED <<seen_tx, file, now, cmd, snap, ncmds, grants, paid_at>>

\* The expired record and the wallet_map entries naming it are removed
\* (lines 217-221).
SweepPop ==
    /\ pc["sweeper"] = "pop"
    /\ users' = Pop(users, sweep.cur)
    /\ wallet_map' = DropWallets(wallet_map, sweep.cur)
    /\ sweep' = [sweep EXCEPT !.cur = <<>>, !.changed = TRUE,
                              !.deleted = @ \cup {sweep.cur}]
    /\ pc' = [pc EXCEPT !["sweeper"] = "scan"]
    /\ sent' = {}
    /\ last' = Step("pop", sweep.cur, "")
    /\ UNCHANGED <<seen_tx, file, now, cmd, snap, ncmds, grants, paid_at>>

\* The list is through (lines 222-223)
EndUpdate ==
    /\ pc["sweeper"] = "scan"
    /\ sweep.todo = {}
    /\ sweep' = NoSweep
    /\ sent' = {}
    /\ last' = Step("sweep_end", <<>>, "")
    /\ UNCHANGED <<users, wallet_map, seen_tx, now, cmd, ncmds, grants, paid_at>>

\* The list is through: save_data if anything was removed, then sleep
SweepEnd ==
    /\ EndUpdate
    /\ IF sweep.changed THEN SaveNow ELSE file' = file
    /\ pc' = [pc EXCEPT !["sweeper"] = "sleep"]
    /\ UNCHANGED snap

\* ------------------------------------------------------------ the clock
Tick(t) ==
    /\ t > now
    /\ now' = t
    /\ sent' = {}
    /\ last' = Step("tick", <<>>, "")
    /\ UNCHANGED <<users, wallet_map, seen_tx, file, pc, cmd, sweep, snap,
                   ncmds, grants, paid_at>>

\* ------------------------------------------------------------ specification
Next ==
    \/ \E c \in Commands : CmdStart(c[1], c[2])
    \/ \E sig \in Sigs, invite \in BOOLEAN :
          \E detail \in TxDetails(sig) \cup {EmptyDetail} : ScanHandle(sig, detail, invite)
    \/ SweepStart
    \/ \E uname \in DOMAIN users : SweepExamine(uname)
    \/ SweepPop
    \/ SweepEnd
    \/ \E t \in Instants : Tick(t)

Spec == Init /\ [][Next]_vars

\* ------------------------------------------------------------ with the answers
\* The same steps, and those that change nothing in the store: /myjoin, a
\* text that is no command, a transaction seen before.
NextQ ==
    \/ Next /\ ncmds' <= MaxCmdsQ /\ Len(seen_tx') <= MaxTxsQ
    \/ \E c \in Commands : CmdMyJoin(c[1], c[2])
    \/ \E c \in Commands : CmdOther(c[1], c[2])
    \/ \E sig \in Sigs \cup {""} : ScanSkip(sig)

SpecQ == Init /\ [][NextQ]_vars

\* ------------------------------------------------------------ save_data, write by write
\* The same three threads with every save_data in two steps, open() and the
\* end of json.dump, so that saves of different threads overlap.

\* /start [wallet]: the update; save_data is about to be called
CmdStartIO(frm, text) ==
    /\ ncmds < MaxCmdsIO
    /\ StartUpdate(frm, text)
    /\ cmd' = [uname |-> UnameOf(frm), uid |-> frm.id, wallet |-> StartArg(text)]
    /\ pc' = [pc EXCEPT !["handler"] = "save"]
    /\ sent' = {}
    /\ UNCHANGED <<file, snap>>

\* A thread at save_data calls open()
SaveOpen(u, at, to) ==
    /\ pc[u] = at
    /\ OpenFile(u)
    /\ pc' = [pc EXCEPT ![u] = to]
    /\ sent' = {}
    /\ last' = Step("open", <<>>, "")
    /\ UNCHANGED <<users, wallet_map, seen_tx, now, cmd, sweep, ncmds, grants,
                   paid_at>>

\* json.dump of a thread is through and save_data returns
SaveWrite(u, at, to) ==
    /\ pc[u] = at
    /\ CloseFile(u)
    /\ pc' = [pc EXCEPT ![u] = to]
    /\ last' = Step("write", <<>>, "")
    /\ UNCHANGED <<users, wallet_map, seen_tx, now, sweep, ncmds, grants,
                   paid_at>>

CmdSaveOpen == SaveOpen("handler", "save", "write")

\* save_data returns and the reply is sent
CmdSaveWrite ==
    /\ SaveWrite("handler", "write", "idle")
    /\ sent' = StartReply(cmd.uname, cmd.uid, cmd.wallet)
    /\ cmd' = NoCmd

\* handle_new_payment on a new identifier, up to its first save_data
ScanHandleIO(sig, detail, invite) ==
    /\ Len(seen_tx) < MaxTxsIO
    /\ HandleUpdate(sig, detail, invite)
    /\ pc' = [pc EXCEPT !["scanner"] = IF grants'[sig] > grants[sig]
                                       THEN "save1" ELSE "save2"]
    /\ UNCHANGED <<file, snap>>

\* save_data at the end of grant_access_to (line 144)
ScanSave1Open == SaveOpen("scanner", "save1", "write1")

ScanSave1Write ==
    /\ SaveWrite("scanner", "write1", "save2")
    /\ sent' = {}
    /\ UNCHANGED cmd

\* save_data in the finally clause of handle_new_payment (line 123)
ScanSave2Open == SaveOpen("scanner", "save2", "write2")

ScanSave2Write ==
    /\ SaveWrite("scanner", "write2", "idle")
    /\ sent' = {}
    /\ UNCHANGED cmd

\* The list is through: save_data is called if anything was removed
SweepEndIO ==
    /\ EndUpdate
    /\ pc' = [pc EXCEPT !["sweeper"] = IF sweep.changed THEN "save" ELSE "sleep"]
    /\ UNCHANGED <<file, snap>>

SweepSaveOpen == SaveOpen("sweeper", "save", "write")

SweepSaveWrite ==
    /\ SaveWrite("sweeper", "write", "sleep")
    /\ sent' = {}
    /\ UNCHANGED cmd

NextIO ==
    \/ \E c \in Commands : CmdStartIO(c[1], c[2])
    \/ CmdSaveOpen
    \/ CmdSaveWrite
    \/ \E sig \in Sigs, invite \in BOOLEAN :
          \E detail \in TxDetails(sig) \cup {EmptyDetail} : ScanHandleIO(sig, detail, invite)
    \/ ScanSave1Open
    \/ ScanSave1Write
    \/ ScanSave2Open
    \/ ScanSave2Write
    \/ SweepStart
    \/ \E uname \in DOMAIN users : SweepExamine(uname)
    \/ SweepPop
    \/ SweepEndIO
    \/ SweepSaveOpen
    \/ SweepSaveWrite
    \/ \E t \in Instants : Tick(t)

SpecIO == Init /\ [][NextIO]_vars

\* ------------------------------------------------------------ exceptions
\* The same three threads where save_data can raise (the file cannot be
\* opened, or the dump fails after the file was emptied) and where the
\* processing of a fetched detail can raise.  solscan_loop and
\* poll_telegram_updates catch every Exception, wait and go on;
\* daily_expiry_check catches nothing, so its thread ends.

\* What the file holds after save_data raised
FailedFiles == {file, Truncated}

\* a plausible slip: no loop catches the exception of save_data
AfterSaveRaised_dead(u) == "dead"

\* Where a thread is after save_data raised in it
AfterSaveRaised(u) == IF u = "sweeper" THEN "dead" ELSE "save_raised"

\* a plausible slip: the identifier is appended after the detail is processed
SeenOnRaise_lost(st, sig) == st

\* seen_tx when the processing of the detail raises: the identifier was
\* appended at line 99, before the try block
SeenOnRaise(st, sig) == Append(st, sig)

\* /start [wallet] with save_data raising: the store is updated, no reply
CmdStartFail(frm, text) ==
    /\ ncmds < MaxCmdsF
    /\ StartUpdate(frm, text)
    /\ \E content \in FailedFiles : file' = content
    /\ sent' = {}
    /\ pc' = [pc EXCEPT !["handler"] = AfterSaveRaised("handler")]
    /\ UNCHANGED <<cmd, snap>>

\* handle_new_payment on a new identifier with save_data raising at line 144
\* or at line 123 (when line 144 raised, line 123 may still write the store)
ScanHandleFail(sig, detail, invite) ==
    /\ Len(seen_tx) < MaxTxsF
    /\ HandleUpdate(sig, detail, invite)
    /\ \E content \in FailedFiles \cup
                       (IF grants'[sig] > grants[sig]
                        THEN {Store(users', wallet_map', seen_tx')} ELSE {}) :
          file' = content
    /\ pc' = [pc EXCEPT !["scanner"] = AfterSaveRaised("scanner")]
    /\ UNCHANGED snap

\* handle_new_payment on a new identifier whose detail is not what lines
\* 101-117 expect (not a dictionary, a destination that is no text): the
\* try block raises, the finally clause saves, solscan_loop catches
ScanRaise(sig) ==
    /\ Len(seen_tx) < MaxTxsF
    /\ pc["scanner"] = "idle"
    /\ ~SeenBefore(sig, seen_tx)
    /\ seen_tx' = SeenOnRaise(seen_tx, sig)
    /\ UNCHANGED <<users, wallet_map, now, cmd, sweep, snap, ncmds, grants,
                   paid_at>>
    /\ SaveNow
    /\ sent' = {}
    /\ last' = Step("raise", <<>>, sig)
    /\ pc' = [pc EXCEPT !["scanner"] = "raised"]

\* The list is through and save_data raises: the thread ends
SweepEndFail ==
    /\ EndUpdate
    /\ sweep.changed
    /\ \E content \in FailedFiles : file' = content
    /\ pc' = [pc EXCEPT !["sweeper"] = AfterSaveRaised("sweeper")]
    /\ UNCHANGED snap

\* The except clause of a loop is through (print, sleep) and the loop goes on
Resume(u) ==
    /\ pc[u] \in {"save_raised", "raised"}
    /\ pc' = [pc EXCEPT ![u] = "idle"]
    /\ sent' = {}
    /\ last' = Step("resume", <<>>, "")
    /\ UNCHANGED <<users, wallet_map, seen_tx, file, now, cmd, sweep, snap,
                   ncmds, grants, paid_at>>

NextF ==
    \/ Next /\ ncmds' <= MaxCmdsF /\ Len(seen_tx') <= MaxTxsF
    \/ \E c \in Commands : CmdStartFail(c[1], c[2])
    \/ \E sig \in Sigs, invite \in BOOLEAN :
          \E detail \in TxDetails(sig) \cup {EmptyDetail} : ScanHandleFail(sig, detail, invite)
    \/ \E sig \in Sigs : ScanRaise(sig)
    \/ SweepEndFail
    \/ \E u \in {"scanner", "handler"} : Resume(u)

SpecF == Init /\ [][NextF]_vars

\* ------------------------------------------------------------ properties
\* What the properties say of a record, read off the record itself.

\* The day a record was last paid, or joined when it was never paid
ActiveSince(info) ==
    IF Has(info, "last_paid") THEN FromIsoFormat(info["last_paid"])
    ELSE FromIsoFormat(info["join"])

\* The username is on the whitelist once lower-cased and stripped of "@"
Exempt(uname) == LStripAt(Lower(uname)) \in WL_SET

\* The three conditions of a grant, on the detail fetched and the wallet_map
\* of the time
Entitled(detail, wm) ==
    /\ Lamports(detail.transfers) >= MIN_LAMPORTS
    /\ detail.memo
    /\ SignerOf(detail) \in DOMAIN wm

\* The step just taken was handle_new_payment on a new identifier
Processed(l) == l.op \in {"grant", "drop"}

\* C1 (payment idempotence).  No identifier is ever granted twice; once an
\* identifier is in seen_tx no step grants it or processes it again; and
\* handle_new_payment on an identifier already seen changes nothing in
\* users, wallet_map, seen_tx or the file and sends nothing.
C1_PaymentIdempotent ==
    /\ [](\A sig \in Sigs : grants[sig] <= 1)
    /\ [][ /\ \A sig \in Range(seen_tx) :
                /\ grants'[sig] = grants[sig]
                /\ ~(Processed(last') /\ last'.sig = sig)
           /\ last'.op = "skip" =>
                /\ UNCHANGED <<users, wallet_map, seen_tx, file, grants, paid_at>>
                /\ sent' = {} ]_vars

\* C1 witness: a transaction that was granted on an earlier day has just been
\* presented again and skipped.
C1_Witness ==
    /\ last.op = "skip"
    /\ last.sig \in Sigs
    /\ grants[last.sig] = 1
    /\ \E u \in DOMAIN paid_at : paid_at[u] < now

\* C2 (TTL removal).  A record the sweep examines that is not exempt and whose
\* last payment (or join, when never paid) is more than 30 days back is noted
\* for deletion; when it is deleted, users has no such key and wallet_map no
\* entry with that username; and whenever the sweep is between two records,
\* its end included, every record it noted in this pass has been deleted.
C2_TtlRemoval ==
    /\ [](pc["sweeper"] = "scan" => sweep.found = sweep.deleted)
    /\ [][ /\ \A u \in sweep.todo \ sweep'.todo :
                (~Exempt(u) /\ now - ActiveSince(users[u]) > 30)
                   => u \in sweep'.found
           /\ \A u \in sweep'.deleted \ sweep.deleted :
                /\ u \in DOMAIN users
                /\ u \notin DOMAIN users'
                /\ \A w \in DOMAIN wallet_map' : wallet_map'[w] # u ]_vars

\* C2 witness: the sweep has just deleted a record that had a mapped wallet
\* and has no record left to examine.
C2_Witness ==
    /\ last.op = "pop"
    /\ pc["sweeper"] = "scan"
    /\ sweep.todo = {}
    /\ last.uname \in sweep.deleted
    /\ last.uname \notin DOMAIN users
    /\ file.wallet_map # EmptyDict
    /\ \A w \in DOMAIN file.wallet_map : file.wallet_map[w] = last.uname
    /\ wallet_map = EmptyDict

\* C3 (whitelist exemption).  No step deletes the record of an exempt
\* username or removes a wallet_map entry pointing to one, the sweep never
\* notes one for deletion, and no kick or expiry notice names one.
C3_WhitelistExempt ==
    /\ [](\A u \in sweep.found \cup {sweep.cur} : u # <<>> => ~Exempt(u))
    /\ [](\A m \in sent : m.kind \in {"kick", "expired"} => ~Exempt(m.fields[1]))
    /\ [][ /\ \A u \in (DOMAIN users) \ (DOMAIN users') : ~Exempt(u)
           /\ \A w \in (DOMAIN wallet_map) \ (DOMAIN wallet_map') :
                ~Exempt(wallet_map[w]) ]_vars

\* C3 witness: the sweep has just examined and kept the record of @ARC, which
\* joined more than 30 days ago and never paid, and whose wallet is mapped.
C3_Witness ==
    /\ last.op = "keep"
    /\ last.uname = <<"@", "A", "R", "C">>
    /\ last.uname \in DOMAIN users
    /\ ~Has(users[last.uname], "last_paid")
    /\ now - FromIsoFormat(users[last.uname]["join"]) > 30
    /\ \E w \in DOMAIN wallet_map : wallet_map[w] = last.uname

\* C4 (monotonic join).  No step changes or removes the join timestamp of a
\* record that stays in users.
C4_MonotonicJoin ==
    [][ \A u \in (DOMAIN users) \cap (DOMAIN users') :
           Has(users[u], "join")
              => Has(users'[u], "join") /\ users'[u]["join"] = users[u]["join"] ]_vars

\* C4 witness: a /start or a grant has just acted on a record that joined on
\* an earlier day.
C4_Witness ==
    /\ last.op \in {"start", "grant"}
    /\ now > 0
    /\ LET u == IF last.op = "grant" THEN GrantName(last.uname) ELSE last.uname
       IN  /\ u \in DOMAIN users
           /\ users[u]["join"] = IsoFormat(0)

\* C5 (grant precondition).  handle_new_payment on a new identifier grants
\* (record updated with last_paid, welcome sent) exactly when the amount
\* addressed to the receiving address is at least the minimum, the memo marker
\* is in the detail and the payer is a key of wallet_map; otherwise it updates
\* no record and sends nothing.
C5_GrantPrecondition ==
    [][ Processed(last') =>
          IF Entitled(last'.detail, wallet_map)
          THEN /\ last'.op = "grant"
               /\ grants'[last'.sig] = grants[last'.sig] + 1
               /\ \E m \in sent' : m.kind = "welcome"
               /\ \E u \in DOMAIN users' :
                     /\ Has(users'[u], "last_paid")
                     /\ users'[u]["last_paid"] = IsoFormat(now)
                     /\ users'[u]["wallet"] = SignerOf(last'.detail)
          ELSE /\ last'.op = "drop"
               /\ grants' = grants
               /\ users' = users
               /\ sent' = {} ]_vars

\* C5 witness: a payment of exactly the minimum has just been granted.
C5_Witness ==
    /\ last.op = "grant"
    /\ Lamports(last.detail.transfers) = MIN_LAMPORTS
    /\ grants[last.sig] = 1

\* The user was last granted a payment 30 days ago or less
PaidUp(uname) == Has(paid_at, uname) /\ now - paid_at[uname] <= TTL_DAYS

\* C6 (the payer's own record is credited).  A grant sets last_paid, to the
\* time of the grant, on the record kept under the username the address was
\* mapped to, which is the record /start made and /myjoin reads, and it adds
\* no record to users; and the status a paid-up user is sent reports the
\* expiry as the day of the last grant plus 30 days.
C6_PayerOwnRecord ==
    /\ [](\A m \in sent :
             (m.kind = "status" /\ last.op = "myjoin" /\ PaidUp(last.uname))
                => m.fields[3] = IsoFormat(paid_at[last.uname] + TTL_DAYS))
    /\ [][ last'.op = "grant" =>
             /\ DOMAIN users' = DOMAIN users
             /\ Has(users', last'.uname)
             /\ Has(users'[last'.uname], "last_paid")
             /\ users'[last'.uname]["last_paid"] = IsoFormat(now) ]_vars

\* C7 (no revocation of a paid-up user).  The sweep deletes no record of a
\* user who is not exempt and was granted a payment 30 days ago or less, and
\* no kick or expiry notice names such a user.
C7_NoRevocationOfPaidUp ==
    /\ (last.op = "pop" /\ ~Exempt(last.uname)) => ~PaidUp(last.uname)
    /\ \A m \in sent :
          (m.kind \in {"kick", "expired"} /\ ~Exempt(m.fields[1]))
             => ~PaidUp(m.fields[1])

\* A thread is between two operations
AtRest(u) == pc[u] \in {"idle", "sleep"}

\* C8 (serialized mutation and persistence).  No two threads are in save_data
\* at the same time, and whenever every thread is between two operations the
\* file holds the store as it is in memory.
C8_SerializedStore ==
    /\ Cardinality({u \in Units : InSave(u)}) <= 1
    /\ (\A u \in Units : AtRest(u)) => file = Store(users, wallet_map, seen_tx)

\* C9 (a transaction that does not qualify is consumed).  handle_new_payment
\* on a new identifier whose amount is below the minimum, whose detail has no
\* memo marker or whose payer is not a key of wallet_map appends the
\* identifier to seen_tx, leaves users and wallet_map as they are, sends
\* nothing and grants nothing; and no later step, a /start included, grants
\* an identifier that is in seen_tx.
C9_DroppedForGood ==
    [][ /\ (Processed(last') /\ ~Entitled(last'.detail, wallet_map)) =>
              /\ seen_tx' = Append(seen_tx, last'.sig)
              /\ users' = users
              /\ wallet_map' = wallet_map
              /\ sent' = {}
              /\ grants'[last'.sig] = 0
        /\ \A sig \in Range(seen_tx) :
              grants[sig] = 0 => (grants'[sig] = 0 /\ sig \in Range(seen_tx')) ]_vars

\* C9 witness: a qualifying payment of an address nobody mapped has just been
\* dropped, after t3, which did not qualify, was dropped and its payer's
\* address w1 was mapped with /start.
C9_Witness ==
    /\ last.op = "drop"
    /\ Qualifies(last.detail)
    /\ ~Has(wallet_map, SignerOf(last.detail))
    /\ seen_tx = <<"t3", last.sig>>
    /\ grants["t3"] = 0
    /\ Has(wallet_map, "w1")

C11_RepeatGrants ==
    [][ (Processed(last') /\ Entitled(last'.detail, wallet_map)) =>
          LET uname == GrantName(wallet_map[SignerOf(last'.detail)])
          IN  /\ last'.op = "grant"
              /\ \E m \in sent' : m.kind = "export_invite"
              /\ \E m \in sent' : m.kind = "welcome"
              /\ Has(users', uname)
              /\ Has(users'[uname], "last_paid")
              /\ users'[uname]["last_paid"] = IsoFormat(now)
              /\ (Has(users, uname) /\ Has(users[uname], "join"))
                    => users'[uname]["join"] = users[uname]["join"] ]_vars

\* C11 witness: a second payment of a user who joined and paid on day 0 has
\* just been granted on a later day.
C11_Witness ==
    /\ last.op = "grant"
    /\ now > 0
    /\ Len(seen_tx) = 2
    /\ \A i \in DOMAIN seen_tx : grants[seen_tx[i]] = 1
    /\ DOMAIN users = {GrantName(last.uname)}
    /\ users[GrantName(last.uname)]["join"] = IsoFormat(0)
    /\ users[GrantName(last.uname)]["last_paid"] = IsoFormat(now)
    /\ \E m \in sent : m.kind = "welcome"

\* C12 (status query).  /myjoin changes nothing in users, wallet_map, seen_tx
\* or the file, and answers the sender alone: with the register-first text
\* when users has no record under the sender's username, else with the
\* record's join and last_paid and, as expiry, "N/A" when last_paid is not
\* set and last_paid plus 30 days when it is.
C12_StatusQuery ==
    [][ last'.op = "myjoin" =>
          /\ UNCHANGED <<users, wallet_map, seen_tx, file>>
          /\ Cardinality(sent') = 1
          /\ \A m \in sent' :
                IF ~Has(users, last'.uname)
                THEN m.kind = "no_record"
                ELSE LET info == users[last'.uname]
                     IN  /\ m.kind = "status"
                         /\ m.fields[1] = info["join"]
                         /\ IF Has(info, "last_paid")
                            THEN /\ m.fields[2] = info["last_paid"]
                                 /\ FromIsoFormat(m.fields[3])
                                       = FromIsoFormat(info["last_paid"]) + 30
                            ELSE m.fields[3] = <<"N", "/", "A">> ]_vars

\* C12 witness: a user who joined on day 0 and paid on day 30 has just been
\* told that the access expires on day 60.
C12_Witness ==
    /\ last.op = "myjoin"
    /\ Has(users, last.uname)
    /\ users[last.uname]["join"] = IsoFormat(0)
    /\ \E m \in sent :
          /\ m.kind = "status"
          /\ m.fields[2] = IsoFormat(30)
          /\ m.fields[3] = IsoFormat(60)

\* The step just taken was handle_new_payment on a new identifier, whether it
\* ran to its end or raised
Started(l) == l.op \in {"grant", "drop", "raise"}

\* C13 (fail-closed processing).  Whenever handle_new_payment has run on a new
\* identifier, the identifier is in seen_tx when the call is over, also when
\* the fetch gave no detail, when the processing of the detail raised and
\* when save_data raised; it runs only on identifiers that are not in
\* seen_tx, and an identifier in seen_tx stays there and is granted nothing
\* more.
C13_FailClosed ==
    [][ /\ Started(last') =>
              /\ last'.sig \notin Range(seen_tx)
              /\ last'.sig \in Range(seen_tx')
        /\ \A sig \in Range(seen_tx) :
              /\ sig \in Range(seen_tx')
              /\ grants'[sig] = grants[sig] ]_vars

\* C13 witness: the fetch of a detail failed and save_data raised, the
\* identifier is in seen_tx and missing from the file, and the loop is in its
\* except clause.
C13_Witness ==
    /\ pc["scanner"] = "save_raised"
    /\ last.op = "drop"
    /\ last.detail = EmptyDetail
    /\ last.sig \in Range(seen_tx)
    /\ file.seen_tx # seen_tx

C15_KickNotifyThenDelete ==
    [][ /\ \A u \in (DOMAIN users) \ (DOMAIN users') :
              /\ pc["sweeper"] = "pop"
              /\ sweep.cur = u
        /\ (pc'["sweeper"] = "pop" /\ pc["sweeper"] # "pop") =>
              /\ \E m \in sent' : m.kind = "kick" /\ m.fields[1] = sweep'.cur
              /\ \E m \in sent' : m.kind = "expired" /\ m.fields[1] = sweep'.cur
        /\ (pc["sweeper"] = "pop" /\ pc'["sweeper"] # "pop") =>
              /\ sweep.cur \notin DOMAIN users'
              /\ sweep.cur \in sweep'.deleted ]_vars

\* C16 (re-entry after expiry).  When the sweep deletes a record no
\* wallet_map entry names its username any more, so a payment from an address
\* that is no key of wallet_map is dropped and changes no record; /start from
\* a username that has no record, one the sweep deleted included, makes a
\* record with join at the time of the command, the sender's user_id and no
\* last_paid; and whatever happened before, a new identifier that qualifies
\* and whose payer is mapped is granted.
C16_ReEntry ==
    [][ /\ \A u \in (DOMAIN users) \ (DOMAIN users') :
              \A w \in DOMAIN wallet_map' : wallet_map'[w] # u
        /\ (Processed(last') /\ ~Has(wallet_map, SignerOf(last'.detail))) =>
              (last'.op = "drop" /\ users' = users)
        /\ (last'.op = "start" /\ ~Has(users, last'.uname)) =>
              /\ Has(users', last'.uname)
              /\ Has(users'[last'.uname], "join")
              /\ users'[last'.uname]["join"] = IsoFormat(now)
              /\ Has(users'[last'.uname], "user_id")
              /\ ~Has(users'[last'.uname], "last_paid")
        /\ (Processed(last') /\ Entitled(last'.detail, wallet_map)) =>
              last'.op = "grant" ]_vars

\* C16 witness: a user who had paid and whose record the sweep has deleted
\* has just sent /start with an address again, and has a record that joined
\* now and is not paid.
C16_Witness ==
    /\ last.op = "start"
    /\ now > TTL_DAYS
    /\ Has(paid_at, last.uname)
    /\ Has(users, last.uname)
    /\ users[last.uname]["join"] = IsoFormat(now)
    /\ ~Has(users[last.uname], "last_paid")
    /\ \E w \in DOMAIN wallet_map : wallet_map[w] = last.uname

\* C17 (seen_tx is append-only).  Every step leaves seen_tx as it is or with
\* one identifier added at its end; so an identifier that was granted is
\* never granted again, also after the user's record was deleted and the
\* same address mapped again.
C17_SeenAppendOnly ==
    /\ [](\A i, j \in DOMAIN seen_tx : seen_tx[i] = seen_tx[j] => i = j)
    /\ [][ /\ Len(seen_tx') \in {Len(seen_tx), Len(seen_tx) + 1}
           /\ SubSeq(seen_tx', 1, Len(seen_tx)) = seen_tx
           /\ \A sig \in Range(seen_tx) :
                 (last'.op = "grant" => last'.sig # sig) /\ grants'[sig] <= 1 ]_vars

\* C17 witness: t1 was granted to a user whose record the sweep has deleted
\* since and who has mapped the same address w1 again; t1 is still the first
\* entry of seen_tx, granted once, and the scanner has just processed another
\* identifier.
C17_Witness ==
    /\ last.op = "drop"
    /\ seen_tx = <<"t1", last.sig>>
    /\ grants["t1"] = 1
    /\ now > TTL_DAYS
    /\ \E u \in DOMAIN paid_at :
          /\ Has(users, u)
          /\ users[u]["join"] = IsoFormat(now)
          /\ ~Has(users[u], "last_paid")
          /\ Has(wallet_map, "w1")
          /\ wallet_map["w1"] = u

\* C18 (wallet ownership is last-write-wins).  An entry of wallet_map is set
\* or changed only by /start with that address, to the sender's username; and
\* a grant changes the record of the username wallet_map holds for the payer
\* and no other record, adds no record, and addresses the welcome and the
\* invite to the user_id of that record.
C18_LastWriteWins ==
    [][ /\ \A w \in DOMAIN wallet_map' :
              (~Has(wallet_map, w) \/ wallet_map'[w] # wallet_map[w]) =>
                 (last'.op = "start" /\ wallet_map'[w] = last'.uname)
        /\ last'.op = "grant" =>
              LET owner == wallet_map[SignerOf(last'.detail)]
              IN  /\ last'.uname = owner
                  /\ DOMAIN users' = DOMAIN users
                  /\ \A u \in DOMAIN users : u # owner => users'[u] = users[u]
                  /\ Has(users'[owner], "last_paid")
                  /\ users'[owner]["last_paid"] = IsoFormat(now)
                  /\ \A m \in sent' :
                        m.kind \in {"welcome", "invite"} =>
                           m.to = Str(users[owner]["user_id"]) ]_vars

\* C19 (shape of a record's life).  Every record has a join; a record that
\* has last_paid and stays in users keeps one, with a time that is not
\* earlier; and the time of a username's latest grant never goes back.
C19_RecordShape ==
    /\ [](\A u \in DOMAIN users : Has(users[u], "join"))
    /\ [][ /\ \A u \in (DOMAIN users) \cap (DOMAIN users') :
                 Has(users[u], "last_paid") =>
                    /\ Has(users'[u], "last_paid")
                    /\ FromIsoFormat(users'[u]["last_paid"])
                          >= FromIsoFormat(users[u]["last_paid"])
           /\ \A u \in DOMAIN paid_at :
                 Has(paid_at', u) /\ paid_at'[u] >= paid_at[u] ]_vars

\* C19 witness: a user who paid on an earlier day has just sent /start again
\* and the record still has that last_paid, next to its join.
C19_Witness ==
    /\ last.op = "start"
    /\ Has(users, last.uname)
    /\ Has(users[last.uname], "join")
    /\ Has(users[last.uname], "last_paid")
    /\ Has(paid_at, last.uname)
    /\ FromIsoFormat(users[last.uname]["last_paid"]) = paid_at[last.uname]
    /\ paid_at[last.uname] < now

\* C20 (no dangling wallet mapping).  Between any two steps of the threads,
\* and so whenever no thread is in the middle of an operation, every username
\* that wallet_map holds for an address is a key of users.
C20_NoDanglingWallet ==
    \A w \in DOMAIN wallet_map : Has(users, wallet_map[w])

\* C20 witness: the sweep has just deleted the record of a user who had two
\* addresses mapped (the file still shows them), and both entries are gone.
C20_Witness ==
    /\ last.op = "pop"
    /\ ~Has(users, last.uname)
    /\ Cardinality(DOMAIN file.wallet_map) = 2
    /\ \A w \in DOMAIN file.wallet_map : file.wallet_map[w] = last.uname
    /\ wallet_map = EmptyDict

====
